---- MODULE Spec2Model ----
(***************************************************************************)
(* Model of binance_exporter.py: the Prometheus exporter that, on every    *)
(* scrape of /metrics, walks the METRICS catalog, fetches the exchange     *)
(* time, signs and issues one request per catalog entry and normalises the *)
(* answers into metric records.                                            *)
(*                                                                         *)
(* Two threads exist after main() has started the WSGI server: the main    *)
(* thread (registers the collector, then sleeps) and the single-threaded   *)
(* wsgiref server thread (one request at a time).  REGISTRY.register()     *)
(* holds the registry lock while it calls collect() once to learn the      *)
(* metric names; a scrape takes the same lock to copy the collector list.  *)
(*                                                                         *)
(* Abstractions: response texts are records describing their JSON shape;   *)
(* decimal numerals are parsed to hundredths; server times are small       *)
(* naturals; HMAC-SHA256 is an injective string constructor.               *)
(***************************************************************************)
EXTENDS Integers, Sequences, FiniteSets, TLC

VARIABLES alive, main, catalog, owner, idx, stage, ts, tstatus, res, bodies,
          sstatus, wire, trace, srvResp, lastError, mock, returned

vars == <<alive, main, catalog, owner, idx, stage, ts, tstatus, res, bodies,
          sstatus, wire, trace, srvResp, lastError, mock, returned>>

----------------------------------------------------------------------------
(* Bounds of the model *)

\* longest line-item sequence of one exchange answer
MaxItems == 2
\* number of distinct server times the time endpoint may report
MaxTime == 2

----------------------------------------------------------------------------
(* Module-level configuration *)

BINANCE_EXPORTER_NAME == "binance-exporter"
BINANCE_KEY == "key"
BINANCE_SECRET == "secret"
BINANCE_API_ENDPOINT == "https://api.binance.com"
HTTP_OK == 200

\* (mutant) the catalog with the locked entry's label copied from the flexible one
METRICS_SameType ==
  << [name |-> "earn_wallet", description |-> "Binance Earn Wallet",
      type |-> "gauge", key |-> "totalAmount", method |-> "GET",
      params |-> <<>>, labels |-> [type |-> "flexible"],
      uri |-> "/sapi/v1/simple-earn/flexible/position"],
     [name |-> "earn_wallet", description |-> "Binance Earn Wallet",
      type |-> "gauge", key |-> "amount", method |-> "GET",
      params |-> <<>>, labels |-> [type |-> "flexible"],
      uri |-> "/sapi/v1/simple-earn/locked/position"],
     [name |-> "funding_wallet", description |-> "Binance Funding Wallet",
      type |-> "gauge", key |-> "free", method |-> "POST",
      params |-> <<>>, labels |-> <<>>,
      uri |-> "/sapi/v1/asset/get-funding-asset"],
     [name |-> "spot_wallet", description |-> "Binance Spot Wallet",
      type |-> "gauge", key |-> "free", method |-> "POST",
      params |-> <<>>, labels |-> <<>>,
      uri |-> "/sapi/v3/asset/getUserAsset"] >>

\* the METRICS catalog, in order; a dict whose order matters (params) is a
\* sequence of <<key, value>> pairs, a dict whose order does not (labels) is
\* a function on its keys
METRICS ==
  << [name |-> "earn_wallet", description |-> "Binance Earn Wallet",
      type |-> "gauge", key |-> "totalAmount", method |-> "GET",
      params |-> <<>>, labels |-> [type |-> "flexible"],
      uri |-> "/sapi/v1/simple-earn/flexible/position"],
     [name |-> "earn_wallet", description |-> "Binance Earn Wallet",
      type |-> "gauge", key |-> "amount", method |-> "GET",
      params |-> <<>>, labels |-> [type |-> "locked"],
      uri |-> "/sapi/v1/simple-earn/locked/position"],
     [name |-> "funding_wallet", description |-> "Binance Funding Wallet",
      type |-> "gauge", key |-> "free", method |-> "POST",
      params |-> <<>>, labels |-> <<>>,
      uri |-> "/sapi/v1/asset/get-funding-asset"],
     [name |-> "spot_wallet", description |-> "Binance Spot Wallet",
      type |-> "gauge", key |-> "free", method |-> "POST",
      params |-> <<>>, labels |-> <<>>,
      uri |-> "/sapi/v3/asset/getUserAsset"] >>

\* `"simple-earn" in metric["uri"]`
SimpleEarnUris == {"/sapi/v1/simple-earn/flexible/position",
                   "/sapi/v1/simple-earn/locked/position"}
IsSimpleEarn(uri) == uri \in SimpleEarnUris

----------------------------------------------------------------------------
(* Pure helpers *)

Digits == <<"0", "1", "2", "3", "4", "5", "6", "7", "8", "9">>

\* str() of a natural, as urlencode applies it to the timestamp
RECURSIVE Str(_)
Str(n) == IF n < 10 THEN Digits[n + 1]
          ELSE Str(n \div 10) \o Digits[(n % 10) + 1]

\* urllib.parse.urlencode of an ordered dict (a sequence of <<key, value>>
\* pairs whose values are already strings): k1=v1&k2=v2 in insertion order
RECURSIVE urlencode(_)
urlencode(data) ==
  IF data = <<>> THEN ""
  ELSE LET rest == urlencode(Tail(data))
           kv == Head(data)[1] \o "=" \o Head(data)[2]
       IN IF rest = "" THEN kv ELSE kv \o "&" \o rest

\* hmac.new(BINANCE_SECRET, urlencode(data), sha256).hexdigest(); the digest is
\* kept symbolic: distinct (secret, message) pairs give distinct digests
Signature(data) == "hmac_sha256(" \o BINANCE_SECRET \o "," \o urlencode(data) \o ")"

\* position of key k in an ordered dict, 0 when absent
KeyIndex(d, k) ==
  IF \E i \in 1..Len(d) : d[i][1] = k
  THEN CHOOSE i \in 1..Len(d) : d[i][1] = k
  ELSE 0

\* d[k] = v on an ordered dict: an existing key keeps its position
DictSet(d, k, v) ==
  IF KeyIndex(d, k) = 0 THEN Append(d, <<k, v>>)
  ELSE [d EXCEPT ![KeyIndex(d, k)] = <<k, v>>]

\* d |= e on ordered dicts
RECURSIVE DictUpdate(_, _)
DictUpdate(d, e) ==
  IF e = <<>> THEN d
  ELSE DictUpdate(DictSet(d, Head(e)[1], Head(e)[2]), Tail(e))

\* the dict api_call signs: {"timestamp": timestamp} | params
SignedData(timestamp, params) ==
  DictUpdate(<< <<"timestamp", Str(timestamp)>> >>, params)

\* (mutant) the signature is taken over params, without the timestamp
SentDataParamsSigned(timestamp, params) ==
  DictSet(SignedData(timestamp, params), "signature", Signature(params))

\* the dict api_call transmits: the signed dict with data["signature"] set
SentData(timestamp, params) ==
  LET data == SignedData(timestamp, params)
  IN DictSet(data, "signature", Signature(data))

\* the request api_call hands to requests.get / requests.post
SignedRequest(metric, timestamp) ==
  [kind |-> "signed", method |-> metric.method,
   url |-> BINANCE_API_ENDPOINT \o metric.uri,
   apikey |-> BINANCE_KEY, params |-> SentData(timestamp, metric.params)]

\* no signed request is awaiting its response
NoRequest == [kind |-> "none", method |-> "", url |-> "", apikey |-> "", params |-> <<>>]

\* (mutant) any 2xx status passes the test
StatusOkAny2xx(status) == status \in 200..299

\* `res.status_code != 200` is the only status test of api_call
StatusOk(status) == status = HTTP_OK

\* float(): the numerals the exchange answers with, in hundredths; any other
\* string raises ValueError
FloatTable == [s \in {"1.5", "2.30", "2.3", "100.0"} |->
                 CASE s = "1.5" -> 150
                   [] s = "2.30" -> 230
                   [] s = "2.3" -> 230
                   [] s = "100.0" -> 10000]
IsNumeral(s) == s \in DOMAIN FloatTable
Float(s) == FloatTable[s]

\* metric['name'].lower() on the names of the catalog
Lower(s) == CASE s = "earn_wallet" -> "earn_wallet"
              [] s = "funding_wallet" -> "funding_wallet"
              [] s = "spot_wallet" -> "spot_wallet"
              [] OTHER -> s

\* f"binance_{metric['name'].lower()}"
MetricName(metric) == "binance_" \o Lower(metric.name)

\* (mutant) the `labels |= metric["labels"]` line left out
LabelsWithoutFixed(metric, item) ==
  [job |-> BINANCE_EXPORTER_NAME, asset |-> item["asset"]]

\* labels = {"job": ..., "asset": item["asset"]}; labels |= metric["labels"]
Labels(metric, item) ==
  LET base == [job |-> BINANCE_EXPORTER_NAME, asset |-> item["asset"]]
      fixed == metric.labels
  IN [k \in DOMAIN base \cup DOMAIN fixed |->
        IF k \in DOMAIN fixed THEN fixed[k] ELSE base[k]]

\* the dict appended to res for one line item
Record(metric, item) ==
  [name |-> MetricName(metric), value |-> Float(item[metric.key]),
   description |-> metric.description, type |-> metric.type,
   labels |-> Labels(metric, item)]

\* (mutant) res.insert(0, record)
AppendRecordFront(acc, rec) == <<rec>> \o acc

\* res.append(record)
AppendRecord(acc, rec) == Append(acc, rec)

\* the exception, if any, that building the record of one item raises:
\* item["asset"] (KeyError), item[key] (KeyError), float() (ValueError)
ItemError(metric, item) ==
  IF "asset" \notin DOMAIN item THEN "KeyError"
  ELSE IF metric.key \notin DOMAIN item THEN "KeyError"
  ELSE IF ~IsNumeral(item[metric.key]) THEN "ValueError"
  ELSE "none"

\* `for item in wallet:` of get_wallets; stops at the first raising item
RECURSIVE ItemLoop(_, _, _)
ItemLoop(metric, items, acc) ==
  IF items = <<>> THEN [err |-> "none", res |-> acc]
  ELSE IF ItemError(metric, Head(items)) # "none"
       THEN [err |-> ItemError(metric, Head(items)), res |-> acc]
       ELSE ItemLoop(metric, Tail(items),
                     AppendRecord(acc, Record(metric, Head(items))))

----------------------------------------------------------------------------
(* The exchange: what an outbound call can come back with *)

\* one line item of a wallet answer: a JSON object, as a function on its keys
Item(key, asset, amount) == ("asset" :> asset) @@ (key :> amount)

\* line items get_wallets can normalise for an entry whose value field is key
GoodItems(key) == {Item(key, "BTC", "1.5"), Item(key, "ETH", "2.30")}

\* line items that make the loop raise: no "asset", no value field, and a
\* value that is no numeral
BadItems(key) == {(key :> "1.5"), ("asset" :> "BTC"), Item(key, "BTC", "abc")}

GoodSeqs(key) == UNION {[1..n -> GoodItems(key)] : n \in 0..MaxItems}

\* a raising item after n < MaxItems good ones (the records of the good ones
\* are already in res when the exception is raised)
BadSeqs(key) ==
  {Append([j \in 1..n |-> Item(key, "BTC", "1.5")], b) :
     n \in 0..(MaxItems - 1), b \in BadItems(key)}

\* a response text by its JSON shape: a JSON array of items, a JSON object
\* (its keys; items is the value under "rows" when present), or no JSON at all
ArrayDoc(items) == [kind |-> "array", keys |-> {}, items |-> items]
RowsDoc(items) == [kind |-> "object", keys |-> {"rows"}, items |-> items]
ErrorDoc == [kind |-> "object", keys |-> {"code", "msg"}, items |-> <<>>]
EmptyObjectDoc == [kind |-> "object", keys |-> {}, items |-> <<>>]
GarbageDoc == [kind |-> "garbage", keys |-> {}, items |-> <<>>]

\* texts the exchange may answer a signed call with: every item sequence in
\* the shape the endpoint uses ({"rows": [...]} for simple-earn, a bare array
\* otherwise), item sequences in the other endpoints' shape, an error object,
\* an empty object and a text that is no JSON
Docs(metric) ==
  LET key == metric.key
      own(q) == IF IsSimpleEarn(metric.uri) THEN RowsDoc(q) ELSE ArrayDoc(q)
      other(q) == IF IsSimpleEarn(metric.uri) THEN ArrayDoc(q) ELSE RowsDoc(q)
  IN {GarbageDoc, ErrorDoc, EmptyObjectDoc}
       \cup {own(q) : q \in GoodSeqs(key) \cup BadSeqs(key)}
       \cup {other(q) : q \in {<<>>, <<Item(key, "BTC", "1.5")>>}}

\* outcome of requests.get/post: a transport failure (timeout, connection
\* error) or a response with a status and a text
TransportFailure == [net |-> FALSE, status |-> 0, doc |-> GarbageDoc]

SignedOutcomes(metric) ==
  {TransportFailure}
    \cup {[net |-> TRUE, status |-> st, doc |-> ErrorDoc] : st \in {201, 429}}
    \cup {[net |-> TRUE, status |-> HTTP_OK, doc |-> d] : d \in Docs(metric)}

\* outcome of the time request; serverTime is read only when hasTime
TimeTransportFailure ==
  [net |-> FALSE, status |-> 0, json |-> FALSE, hasTime |-> FALSE, serverTime |-> 0]

TimeOutcomes ==
  {TimeTransportFailure}
    \cup {[net |-> TRUE, status |-> st, json |-> FALSE, hasTime |-> FALSE,
           serverTime |-> 0] : st \in {HTTP_OK, 503}}
    \cup {[net |-> TRUE, status |-> st, json |-> TRUE, hasTime |-> FALSE,
           serverTime |-> 0] : st \in {HTTP_OK, 503}}
    \cup {[net |-> TRUE, status |-> HTTP_OK, json |-> TRUE, hasTime |-> TRUE,
           serverTime |-> t] : t \in 1..MaxTime}
    \cup {[net |-> TRUE, status |-> 503, json |-> TRUE, hasTime |-> TRUE,
           serverTime |-> 1]}

\* A mocked exchange answers every call of one kind the same way; NoMock is
\* the live exchange, which may answer anything.  Against a mock, `returned`
\* keeps the lists the last two get_wallets calls returned
NoMock == [on |-> FALSE, time |-> TimeTransportFailure, signed |-> <<>>]

MockSigned(metric) ==
  LET shaped(q) == IF IsSimpleEarn(metric.uri) THEN RowsDoc(q) ELSE ArrayDoc(q)
      ok(d) == [net |-> TRUE, status |-> HTTP_OK, doc |-> d]
  IN {ok(shaped(<<>>)),
      ok(shaped(<<Item(metric.key, "BTC", "1.5"), Item(metric.key, "ETH", "2.30")>>)),
      ok(shaped(<<Item(metric.key, "BTC", "abc")>>)),
      [net |-> TRUE, status |-> 429, doc |-> ErrorDoc]}

MockTimes == {o \in TimeOutcomes : o.hasTime => o.serverTime = 1}

Mocks ==
  {[on |-> TRUE, time |-> t, signed |-> <<a, b, c, d>>] :
     t \in MockTimes,
     a \in MockSigned(METRICS[1]), b \in MockSigned(METRICS[2]),
     c \in MockSigned(METRICS[3]), d \in MockSigned(METRICS[4])}

TimeAnswers == IF mock.on THEN {mock.time} ELSE TimeOutcomes
\* the live exchange answers by endpoint, whatever the exporter holds
ExchangeAnswers == [i \in 1..Len(METRICS) |-> SignedOutcomes(METRICS[i])]

SignedAnswers(i) == IF mock.on THEN {mock.signed[i]} ELSE ExchangeAnswers[i]

----------------------------------------------------------------------------
(* get_wallets, one catalog entry at a time *)

\* json.loads of the signed call's text followed by `wallet = wallet["rows"]`
\* for the simple-earn entries: the line-item sequence, or the exception
Unwrap(metric, doc) ==
  IF doc.kind = "garbage" THEN [err |-> "JSONDecodeError", items |-> <<>>]
  ELSE IF IsSimpleEarn(metric.uri)
  THEN IF doc.kind = "array" THEN [err |-> "TypeError", items |-> <<>>]
       ELSE IF "rows" \notin doc.keys THEN [err |-> "KeyError", items |-> <<>>]
       ELSE [err |-> "none", items |-> doc.items]
  ELSE IF doc.kind = "array" THEN [err |-> "none", items |-> doc.items]
       \* iterating a JSON object yields its keys, and str["asset"] raises
       ELSE IF doc.keys # {} THEN [err |-> "TypeError", items |-> <<>>]
       ELSE [err |-> "none", items |-> <<>>]

\* body of the `for metric in METRICS` loop after api_call returned doc
Normalise(metric, doc, acc) ==
  LET u == Unwrap(metric, doc)
  IN IF u.err # "none" THEN [err |-> u.err, res |-> acc]
     ELSE ItemLoop(metric, u.items, acc)

\* (mutant) api_call updates the entry's own params dict in place
CatalogAfterCallAliased(cat, i, data) == [cat EXCEPT ![i].params = data]

\* the catalog after one api_call on entry i: api_call builds a fresh dict
\* (`data`) and updates that, so the entry's params are left as they were
CatalogAfterCall(cat, i, data) == cat

\* records for the exposition side: collect() turns each dict of get_wallets
\* into one Metric with one sample, in order
Collect(records) ==
  [k \in 1..Len(records) |->
     [name |-> records[k].name, documentation |-> records[k].description,
      type |-> records[k].type,
      sample |-> [name |-> records[k].name, labels |-> records[k].labels,
                  value |-> records[k].value]]]

\* a response of the WSGI app.  Beside what goes over the wire (status and
\* the metrics serialised) it notes what the handler did to produce it: the
\* number of get_wallets calls, the list get_wallets returned and the
\* exchange answers that list was built from
Response(path, status, invoked, records, answers) ==
  [path |-> path, status |-> status, metrics |-> Collect(records),
   invoked |-> invoked, records |-> records, answers |-> answers]

NoResponse == Response("", 0, 0, <<>>, <<>>)

\* prometheus_app: status by PATH_INFO for the paths that bake no output
RouteStatus(path) ==
  CASE path = "/" -> 301
    [] path = "/favicon.ico" -> 200
    [] OTHER -> 404

Paths == {"/", "/favicon.ico", "/metrics", "/other"}

----------------------------------------------------------------------------
(* State *)

InitCommon ==
  /\ alive = TRUE
  /\ main = "boot"
  /\ catalog = METRICS
  /\ owner = "none"
  /\ idx = 0
  /\ stage = "idle"
  /\ ts = 0
  /\ tstatus = 0
  /\ sstatus = 0
  /\ res = <<>>
  /\ bodies = <<>>
  /\ wire = NoRequest
  /\ trace = <<>>
  /\ srvResp = NoResponse
  /\ lastError = "none"
  /\ returned = <<>>

Init == InitCommon /\ mock = NoMock

InitMock == InitCommon /\ mock \in Mocks

\* an exception leaves get_wallets: in the main thread (register) nothing
\* catches it and the interpreter exits; in the server thread wsgiref answers
\* 500 and goes on serving.  The locals of the call are gone either way
Raise(exc) ==
  /\ lastError' = exc
  /\ owner' = "none"
  /\ idx' = 0
  /\ stage' = "idle"
  /\ ts' = 0
  /\ res' = <<>>
  /\ bodies' = <<>>
  /\ IF owner = "main"
     THEN /\ alive' = FALSE
          /\ main' = "crashed"
          /\ srvResp' = srvResp
     ELSE /\ alive' = alive
          /\ main' = main
          /\ srvResp' = Response("/metrics", 500, 1, <<>>, <<>>)

\* `return res` with the list r built from the answers b: to register() in
\* the main thread, which keeps the metric names only and returns to main()'s
\* sleep loop, or to collect() in the server thread, whose metrics
\* _bake_output serialises into the 200 response
Return(r, b) ==
  /\ owner' = "none"
  /\ idx' = 0
  /\ stage' = "idle"
  /\ ts' = 0
  /\ tstatus' = 0
  /\ alive' = alive
  /\ lastError' = lastError
  /\ returned' = IF ~mock.on THEN returned
                 ELSE IF Len(returned) < 2 THEN Append(returned, r)
                 ELSE <<returned[2], r>>
  /\ res' = <<>>
  /\ bodies' = <<>>
  /\ IF owner = "main"
     THEN /\ main' = "sleeping"
          /\ srvResp' = srvResp
     ELSE /\ main' = main
          /\ srvResp' = Response("/metrics", 200, 1, r, b)

\* os._exit(1): the process is gone at once, with everything it held in
\* memory; owner, idx and stage stay as the place where it died
Exit ==
  /\ alive' = FALSE
  /\ ts' = 0
  /\ res' = <<>>
  /\ bodies' = <<>>
  /\ UNCHANGED <<main, owner, idx, stage, tstatus, srvResp, lastError, returned>>

----------------------------------------------------------------------------
(* Actions *)

\* main(): start_http_server(BINANCE_EXPORTER_PORT); from here on the server
\* thread answers requests
StartServer ==
  /\ alive /\ main = "boot"
  /\ main' = "unregistered"
  /\ UNCHANGED <<alive, catalog, owner, idx, stage, ts, tstatus, res, bodies,
                 sstatus, wire, trace, srvResp, lastError, mock, returned>>

\* (mutant) res is a list that outlives the call (an attribute of the
\* collector) and get_wallets goes on appending to it
BeginInvocationKeepsList(o) ==
  /\ owner' = o
  /\ idx' = 1
  /\ stage' = "time"
  /\ ts' = 0
  /\ tstatus' = 0
  /\ sstatus' = 0
  /\ res' = IF returned = <<>> THEN <<>> ELSE returned[Len(returned)]
  /\ bodies' = <<>>
  /\ trace' = <<>>
  /\ lastError' = "none"

\* first statements of a get_wallets call by thread o: res = []
BeginInvocation(o) ==
  /\ owner' = o
  /\ idx' = 1
  /\ stage' = "time"
  /\ ts' = 0
  /\ tstatus' = 0
  /\ sstatus' = 0
  /\ res' = <<>>
  /\ bodies' = <<>>
  /\ trace' = <<>>
  /\ lastError' = "none"

\* main(): REGISTRY.register(BinanceCollector()) takes the registry lock and
\* calls collect(), hence get_wallets, in the main thread
BeginRegister ==
  /\ alive /\ main = "unregistered" /\ owner = "none"
  /\ main' = "registering"
  /\ BeginInvocation("main")
  /\ UNCHANGED <<alive, catalog, wire, srvResp, mock, returned>>

\* prometheus_app for "/", "/favicon.ico" and unknown paths.  The server
\* thread handles one request at a time, so none of these is answered while a
\* scrape is collecting; register() in the main thread does not hinder them
HandleOther ==
  /\ alive /\ main \in {"unregistered", "registering", "sleeping"}
  /\ owner # "scrape"
  /\ \E path \in Paths \ {"/metrics"} :
       srvResp' = Response(path, RouteStatus(path), 0, <<>>, <<>>)
  /\ UNCHANGED <<alive, main, catalog, owner, idx, stage, ts, tstatus, res,
                 bodies, sstatus, wire, trace, lastError, mock, returned>>

\* prometheus_app for "/metrics" while the registry holds no collector yet:
\* _bake_output serialises an empty registry
ScrapeUnregistered ==
  /\ alive /\ main = "unregistered"
  /\ srvResp' = Response("/metrics", 200, 0, <<>>, <<>>)
  /\ UNCHANGED <<alive, main, catalog, owner, idx, stage, ts, tstatus, res,
                 bodies, sstatus, wire, trace, lastError, mock, returned>>

\* prometheus_app for "/metrics" with the collector registered: collect()
\* calls get_wallets in the server thread
ScrapeStart ==
  /\ alive /\ main = "sleeping" /\ owner = "none"
  /\ BeginInvocation("scrape")
  /\ srvResp' = NoResponse
  /\ UNCHANGED <<alive, main, catalog, wire, mock, returned>>

\* _timestamp(): the GET of /api/v3/time and json.loads(text)["serverTime"];
\* the response status is not looked at
TimeFetch ==
  /\ alive /\ owner # "none" /\ stage = "time"
  /\ trace' = Append(trace, <<"time", idx>>)
  /\ \E o \in TimeAnswers :
       /\ tstatus' = o.status
       /\ IF ~o.net THEN Raise("ConnectionError")
          ELSE IF ~o.json THEN Raise("JSONDecodeError")
          ELSE IF ~o.hasTime THEN Raise("KeyError")
          ELSE /\ ts' = o.serverTime
               /\ stage' = "sign"
               /\ UNCHANGED <<alive, main, owner, idx, res, bodies, srvResp,
                              lastError>>
  /\ UNCHANGED <<catalog, sstatus, wire, mock, returned>>

\* api_call from `data = {"timestamp": timestamp}` to the requests.get or
\* requests.post call: build the dict, sign it, add the signature, send
SendSigned ==
  /\ alive /\ owner # "none" /\ stage = "sign"
  /\ LET metric == catalog[idx]
         req == SignedRequest(metric, ts)
     IN IF metric.method \notin {"GET", "POST"}
        THEN /\ Exit
             /\ UNCHANGED <<catalog, wire, trace>>
        ELSE /\ wire' = req
             /\ trace' = Append(trace, <<"signed", idx>>)
             /\ catalog' = CatalogAfterCall(catalog, idx, req.params)
             /\ stage' = "wait"
             /\ UNCHANGED <<alive, main, owner, idx, ts, tstatus, res, bodies,
                            srvResp, lastError, returned>>
  /\ UNCHANGED <<sstatus, mock>>

\* the outcome of the signed request, the status test of api_call and the
\* loop body of get_wallets for entry idx: parse, unwrap, build the records;
\* after the last entry get_wallets returns
ReceiveSigned ==
  /\ alive /\ owner # "none" /\ stage = "wait"
  /\ wire' = NoRequest
  /\ \E o \in SignedAnswers(idx) :
       /\ sstatus' = o.status
       /\ IF ~o.net THEN Raise("ConnectionError") /\ UNCHANGED <<tstatus, returned>>
          ELSE IF ~StatusOk(o.status) THEN Exit
          ELSE LET n == Normalise(catalog[idx], o.doc, res)
               IN IF n.err # "none"
                  THEN Raise(n.err) /\ UNCHANGED <<tstatus, returned>>
                  ELSE IF idx = Len(catalog)
                  THEN Return(n.res, Append(bodies, o.doc))
                  ELSE /\ res' = n.res
                       /\ bodies' = Append(bodies, o.doc)
                       /\ idx' = idx + 1
                       /\ stage' = "time"
                       /\ ts' = 0
                       /\ tstatus' = 0
                       /\ UNCHANGED <<alive, main, owner, srvResp, lastError,
                                      returned>>
  /\ UNCHANGED <<catalog, trace, mock>>

Next ==
  \/ StartServer
  \/ BeginRegister
  \/ HandleOther
  \/ ScrapeUnregistered
  \/ ScrapeStart
  \/ TimeFetch
  \/ SendSigned
  \/ ReceiveSigned

Spec == Init /\ [][Next]_vars

\* the same program against a mocked exchange
SpecMock == InitMock /\ [][Next]_vars

----------------------------------------------------------------------------
(* What the claims speak about *)

\* the value field each catalog entry names, in catalog order
ValueFields == <<"totalAmount", "amount", "free", "free">>

\* the catalog entries whose endpoint wraps its line items in {"rows": [...]}
WrappedEntries == {1, 2}

\* the line items of answer i of one get_wallets call
LineItems(answers, i) == answers[i].items

\* <<entry, line item>> of every line item of the answers, in catalog order
\* and then response order
RECURSIVE Origins(_, _)
Origins(answers, i) ==
  IF i > Len(answers) THEN <<>>
  ELSE [j \in 1..Len(LineItems(answers, i)) |-> <<i, LineItems(answers, i)[j]>>]
         \o Origins(answers, i + 1)

\* an answer has the shape its entry's endpoint uses
ShapeOk(answers) ==
  \A i \in 1..Len(answers) :
    IF i \in WrappedEntries
    THEN answers[i].kind = "object" /\ "rows" \in answers[i].keys
    ELSE answers[i].kind = "array" \/ answers[i].keys = {}

\* hundredths denoted by the decimal numerals the answers use
Hundredths(numeral) ==
  CASE numeral = "1.5" -> 150
    [] numeral \in {"2.3", "2.30"} -> 230
    [] numeral = "100.0" -> 10000

\* a get_wallets call is between two catalog entries: res holds the records
\* of the answers in bodies (neither changes until the next answer arrives)
Between == owner # "none" /\ stage = "time"

\* a get_wallets call of the server thread has returned and its list was served
Served == srvResp.path = "/metrics" /\ srvResp.status = 200 /\ srvResp.invoked = 1

\* records is the concatenation the answers call for, record names given by nameOf
Concatenation(records, answers, nameOf(_)) ==
  LET org == Origins(answers, 1)
  IN /\ ShapeOk(answers)
     /\ Len(records) = Len(org)
     /\ \A k \in 1..Len(org) :
          LET i == org[k][1]
              item == org[k][2]
          IN /\ records[k].name = nameOf(i)
             /\ records[k].value = Hundredths(item[ValueFields[i]])
             /\ records[k].description = METRICS[i].description
             /\ records[k].type = METRICS[i].type

CopiedName(i) == METRICS[i].name
PrefixedName(i) == "binance_" \o METRICS[i].name

\* C1: a signed call answered with a status other than 200 ends the process
\* on the spot: the call of that entry is the last outbound call, no entry
\* after it is called, and the scrape it belongs to is never answered
C1_BadStatusIsFatal ==
  sstatus \notin {0, HTTP_OK} =>
    /\ ~alive
    /\ stage = "wait"
    /\ trace # <<>> /\ trace[Len(trace)] = <<"signed", idx>>
    /\ owner = "scrape" => srvResp = NoResponse

C1_Witness ==
  /\ sstatus = 429 /\ ~alive
  /\ owner = "scrape" /\ idx = 3

\* C2: every anomaly of the pipeline (transport failure, text that is no
\* JSON, missing field, value that is no numeral) leaves the process dead
C2_AnomalyIsFatal == lastError # "none" => ~alive

\* C3: a time answer with a status other than 200 is fatal, and no signed
\* request goes out with a timestamp taken from such an answer
C3_TimeStatusChecked ==
  /\ tstatus \notin {0, HTTP_OK} => ~alive
  /\ wire.kind = "signed" => tstatus = HTTP_OK

\* C4: a /metrics response of a process that is still running is a 200
\* carrying the records of all line items of all catalog entries
C4_CompleteOrDown ==
  (alive /\ srvResp.path = "/metrics") =>
    /\ srvResp.status = 200
    /\ Len(srvResp.answers) = Len(METRICS)
    /\ Len(srvResp.metrics) = Len(Origins(srvResp.answers, 1))

\* C5: answering GET /metrics takes exactly one get_wallets call, answering
\* any other path takes none
C5_OneSnapshotPerScrape ==
  srvResp.path # "" =>
    srvResp.invoked = (IF srvResp.path = "/metrics" THEN 1 ELSE 0)

\* C6 as stated: the list get_wallets builds is the concatenation, in catalog
\* order and then response order, of one record per line item, with the
\* value of the entry's value field and name, description and type copied
\* from the entry
C6_NameCopied ==
  /\ Between => Concatenation(res, bodies, CopiedName)
  /\ Served => Concatenation(srvResp.records, srvResp.answers, CopiedName)

\* C6 as amended: the same, with the record's name being "binance_" followed
\* by the entry's name; the list returned covers every catalog entry
C6_Concatenation ==
  /\ Between => Concatenation(res, bodies, PrefixedName)
  /\ Served => /\ Len(srvResp.answers) = Len(METRICS)
               /\ Concatenation(srvResp.records, srvResp.answers, PrefixedName)

C6_Witness ==
  /\ Served
  /\ Len(srvResp.records) = 2 * Len(METRICS)
  /\ srvResp.records[1].value = 150
  /\ srvResp.records[2].value = 230
  /\ srvResp.records[1].name = "binance_earn_wallet"

\* the labels of records are job, asset and the fixed labels of the entry
LabelsComposed(records, answers) ==
  LET org == Origins(answers, 1)
  IN \A k \in 1..Len(records) :
       LET fixed == METRICS[org[k][1]].labels
           labels == records[k].labels
       IN /\ DOMAIN labels = {"job", "asset"} \cup DOMAIN fixed
          /\ labels["job"] = BINANCE_EXPORTER_NAME
          /\ labels["asset"] = org[k][2]["asset"]
          /\ \A key \in DOMAIN fixed : labels[key] = fixed[key]

\* C7: the label set of every record is exactly job (the exporter name) and
\* asset (the line item's asset) together with the fixed labels of its entry
C7_LabelComposition ==
  /\ Between => LabelsComposed(res, bodies)
  /\ Served => LabelsComposed(srvResp.records, srvResp.answers)

C7_Witness ==
  /\ Served
  /\ \E k \in 1..Len(srvResp.records) :
       srvResp.records[k].labels =
         [job |-> "binance-exporter", asset |-> "ETH", type |-> "locked"]
  /\ \E k \in 1..Len(srvResp.records) :
       srvResp.records[k].labels = [job |-> "binance-exporter", asset |-> "ETH"]

\* number of line items in the answers
RECURSIVE ItemCount(_)
ItemCount(answers) ==
  IF answers = <<>> THEN 0
  ELSE Len(Head(answers).items) + ItemCount(Tail(answers))

\* C8: against identical answers two get_wallets calls return equal lists, a
\* call in progress holds records of its own answers only, and the catalog is
\* the one the process started with
C8_NoLeakAcrossScrapes ==
  /\ catalog = METRICS
  /\ Len(returned) = 2 => returned[1] = returned[2]
  /\ owner # "none" => Len(res) = ItemCount(bodies)
  /\ owner = "none" => res = <<>>

C8_Witness ==
  /\ Len(returned) = 2
  /\ Len(returned[2]) = 2 * Len(METRICS)
  /\ Served

\* the outbound calls of one get_wallets call that reaches entry n
RECURSIVE CallOrder(_)
CallOrder(n) ==
  IF n = 0 THEN <<>>
  ELSE CallOrder(n - 1) \o << <<"time", n>>, <<"signed", n>> >>

\* C9: the outbound calls of one get_wallets call are, entry by entry in
\* catalog order, one time fetch and then one signed request, none repeated;
\* the parameters sent are timestamp first, the entry's params, and last the
\* signature, which is the digest of the parameters before it
C9_SequentialSignedCalls ==
  /\ stage = "time" => trace = CallOrder(idx - 1)
  /\ stage = "sign" => trace = SubSeq(CallOrder(idx), 1, 2 * idx - 1)
  /\ stage = "wait" => trace = CallOrder(idx)
  /\ Served => trace = CallOrder(Len(METRICS))
  /\ wire.kind = "signed" =>
       LET p == wire.params
           n == Len(p)
           extra == METRICS[idx].params
       IN /\ n = 2 + Len(extra)
          /\ p[1] = <<"timestamp", Str(ts)>>
          /\ \A j \in 1..Len(extra) : p[1 + j] = extra[j]
          /\ p[n][1] = "signature"
          /\ p[n][2] = "hmac_sha256(" \o BINANCE_SECRET \o "," \o
                         urlencode(SubSeq(p, 1, n - 1)) \o ")"
          /\ wire.url = BINANCE_API_ENDPOINT \o METRICS[idx].uri
          /\ wire.method = METRICS[idx].method

C9_Witness ==
  /\ wire.kind = "signed" /\ owner = "scrape"
  /\ idx = Len(METRICS) /\ ts = 2
  /\ wire.params = << <<"timestamp", "2">>,
                      <<"signature", "hmac_sha256(secret,timestamp=2)">> >>

\* no asset occurs twice in one answer
UniqueAssets(answers) ==
  \A i \in 1..Len(answers) :
    \A a, b \in 1..Len(answers[i].items) :
      a # b => answers[i].items[a]["asset"] # answers[i].items[b]["asset"]

NoTwin(records) ==
  \A a, b \in 1..Len(records) :
    a # b => ~(/\ records[a].name = records[b].name
               /\ records[a].labels = records[b].labels)

\* C10: when no answer lists an asset twice, no two records of one snapshot
\* have both the same name and the same labels
C10_NoDuplicateSeries ==
  /\ (Between /\ UniqueAssets(bodies)) => NoTwin(res)
  /\ (Served /\ UniqueAssets(srvResp.answers)) => NoTwin(srvResp.records)

C10_Witness ==
  /\ Served /\ UniqueAssets(srvResp.answers)
  /\ Len(srvResp.records) = 2 * Len(METRICS)
  /\ \A k \in 1..Len(srvResp.records) :
       srvResp.records[k].labels["asset"] = (IF k % 2 = 1 THEN "BTC" ELSE "ETH")

====
